---- MODULE Spec2Model ----
(***************************************************************************)
(* Model of src/utils/get-project-content.js: the aggregation of a        *)
(* fragments project (package.json, collections, fragments, fragment      *)
(* compositions, page templates) from a directory tree.                   *)
(*                                                                         *)
(* The directory tree is the input: Init draws it from a bounded family.  *)
(* Every function of the source is an operator that returns an outcome    *)
(* record                                                                  *)
(*    [val, err, log, ops, scans]                                          *)
(* val: the value returned (meaningless when err is set), err: the        *)
(* exception that escaped (NoError when none), log: the log() calls made, *)
(* ops: the filesystem calls made, scans: the arrays the .filter stages   *)
(* produced.  getProjectContent is three steps, in the order in which     *)
(* JavaScript evaluates the properties of its object literal.             *)
(***************************************************************************)
EXTENDS Naturals, Sequences, FiniteSets

VARIABLES
    pkg,            \* state of <basePath>/package.json
    tree,           \* the directories of <basePath>/src, in glob order
    pc,             \* position inside getProjectContent
    project,        \* property `project` of the object being built
    collections,    \* property `collections`
    pageTemplates,  \* property `pageTemplates`
    err,            \* the exception that escaped getProjectContent
    log,            \* every log() call so far
    ops,            \* every filesystem call so far
    scans           \* every array produced by a .filter stage so far

vars == <<pkg, tree, pc, project, collections, pageTemplates, err, log, ops, scans>>

----------------------------------------------------------------------------
(* Bounds *)

\* Largest number of directories (top-level and child) in a drawn tree.
MaxEntities == 3

----------------------------------------------------------------------------
(* JavaScript values found in metadata fields *)

Undefined == [t |-> "undefined", v |-> ""]
Str(s) == [t |-> "string", v |-> s]
Num5 == [t |-> "number", v |-> "5"]

\* JavaScript truthiness of a metadata field value.
Truthy(x) == (x.t = "string" /\ x.v # "") \/ x.t = "number"

----------------------------------------------------------------------------
(* Files *)

Absent == [kind |-> "absent", text |-> ""]
Directory == [kind |-> "dir", text |-> ""]
File(t) == [kind |-> "file", text |-> t]

\* Names of content files inside an entity directory.
FileNames == {"a", "b"}

\* Raw text of page-definition.json / package.json and what JSON.parse
\* makes of it; JSON.stringify of the parsed value.
JSONParses(text) == text \in {"{}", "{ }", "null"}
JSONParse(text) == IF text = "{ }" THEN "{}" ELSE text
JSONStringify(value) == value

----------------------------------------------------------------------------
(* Exceptions and log entries *)

NoError == [type |-> "none", site |-> "none"]
Error(type, site) == [type |-> type, site |-> site]

\* The level readFile passes: the expression LOG_LEVEL.error, imported from
\* utils/log.  The .filter callbacks pass the string 'LOG_LEVEL_ERROR'.
LOG_LEVEL_error == "LOG_LEVEL.error"

\* log(message, options): what was said, about what, and the options.
LogEntry(text, subject, file, level, newLine) ==
    [text |-> text, subject |-> subject, file |-> file, level |-> level, newLine |-> newLine]

Op(op, path) == [op |-> op, path |-> path]
Scan(marker, base, kept) == [marker |-> marker, base |-> base, kept |-> kept]

\* An outcome without effects.
Pure(val) == [val |-> val, err |-> NoError, log |-> <<>>, ops |-> <<>>, scans |-> <<>>]

----------------------------------------------------------------------------
(* Paths: sequences of components below basePath *)

DirNames == <<"d1", "d2", "d3", "d4", "d5", "d6">>

ChildDir(directory, j) == directory \o <<DirNames[j]>>
basename(directory) == directory[Len(directory)]

----------------------------------------------------------------------------
(* The directory tree *)

\* What JSON.parse made of a marker file: kind is "absent" (no such file),
\* "unparsable" (the read or the parse throws), "null" (the JSON text null)
\* or "object"; the fields are those the code dereferences.
FragmentJSON(kind, name, htmlPath, cssPath, jsPath, configurationPath) ==
    [kind |-> kind, name |-> name, htmlPath |-> htmlPath, cssPath |-> cssPath,
     jsPath |-> jsPath, configurationPath |-> configurationPath]
CompositionJSON(kind, name, definitionPath) ==
    [kind |-> kind, name |-> name, fragmentCompositionDefinitionPath |-> definitionPath]
TemplateJSON(kind, name) == [kind |-> kind, name |-> name]
CollectionJSON(kind) == [kind |-> kind]

NoFragment(kind) == FragmentJSON(kind, Undefined, Undefined, Undefined, Undefined, Undefined)
NoComposition(kind) == CompositionJSON(kind, Undefined, Undefined)

\* A child directory of a collection directory.
Child(fragment, composition, files) ==
    [fragment |-> fragment, composition |-> composition, files |-> files]
\* A directory of <basePath>/src.
TopDir(collection, children, template, pageDefinition) ==
    [collection |-> collection, children |-> children, template |-> template,
     pageDefinition |-> pageDefinition]

Parses(marker) == marker.kind \in {"null", "object"}

PathValues == {Undefined, Str(""), Num5, Str("a"), Str("b")}
NameValues == {Undefined, Str("n")}
FileStatesOf(n) == {Absent, Directory, File(""), File(n)}
FileSystems == {[n \in FileNames |-> IF n = "a" THEN fa ELSE fb] :
                    fa \in FileStatesOf("a"), fb \in FileStatesOf("b")}
NoFiles == [n \in FileNames |-> Absent]
OnlyA == [n \in FileNames |-> IF n = "a" THEN File("a") ELSE Absent]
BothFiles == [n \in FileNames |-> File(n)]

\* Kinds of child directory drawn when several directories are combined.
CoarseChildren ==
    { Child(NoFragment("absent"), NoComposition("absent"), NoFiles),
      Child(NoFragment("unparsable"), NoComposition("absent"), NoFiles),
      Child(NoFragment("null"), NoComposition("absent"), NoFiles),
      Child(NoFragment("object"), NoComposition("absent"), NoFiles),
      Child(FragmentJSON("object", Str("n"), Str("a"), Str("b"), Undefined, Str("a")),
            NoComposition("absent"), BothFiles),
      Child(FragmentJSON("object", Undefined, Str("b"), Str("a"), Str("a"), Str("b")),
            NoComposition("absent"), OnlyA),
      Child(FragmentJSON("object", Undefined, Str("a"), Undefined, Undefined, Str("")),
            NoComposition("absent"),
            [n \in FileNames |-> IF n = "a" THEN Directory ELSE Absent]),
      Child(NoFragment("absent"), NoComposition("unparsable"), NoFiles),
      Child(NoFragment("absent"), NoComposition("null"), NoFiles),
      Child(NoFragment("absent"), CompositionJSON("object", Str("n"), Str("a")), OnlyA),
      Child(NoFragment("object"), CompositionJSON("object", Undefined, Str("b")), OnlyA) }

\* Every fragment directory over the path values and file states, and every
\* composition directory: drawn alone, inside one collection.
FineChildren ==
    { Child(FragmentJSON("object", name, h, c, j, conf), NoComposition("absent"), files) :
        name \in NameValues, h \in PathValues, c \in PathValues, j \in PathValues,
        conf \in PathValues, files \in FileSystems }
    \cup
    { Child(NoFragment("absent"), CompositionJSON("object", name, d), files) :
        name \in NameValues, d \in PathValues, files \in FileSystems }

\* Top-level directories without children.
Leaves ==
    { TopDir(CollectionJSON(c), <<>>, TemplateJSON("absent", Undefined), Absent) :
        c \in {"absent", "unparsable", "null", "object"} }
    \cup
    { TopDir(CollectionJSON("absent"), <<>>, TemplateJSON("unparsable", Undefined), Absent),
      TopDir(CollectionJSON("absent"), <<>>, TemplateJSON("null", Undefined), File("{}")),
      TopDir(CollectionJSON("absent"), <<>>, TemplateJSON("object", Str("n")), Absent),
      TopDir(CollectionJSON("absent"), <<>>, TemplateJSON("object", Undefined), File("{")),
      TopDir(CollectionJSON("absent"), <<>>, TemplateJSON("object", Str("n")), File("{ }")),
      TopDir(CollectionJSON("object"), <<>>, TemplateJSON("object", Str("n")), File("null")) }

Range(f) == {f[i] : i \in DOMAIN f}

RECURSIVE SeqsOfLen(_, _)
SeqsOfLen(S, n) ==
    IF n = 0 THEN {<<>>}
    ELSE {<<x>> \o rest : x \in S, rest \in SeqsOfLen(S, n - 1)}

\* Top-level directories made of exactly w directories (itself and its
\* children); only a collection directory has children the code looks at.
TopDirsOfWeight(w) ==
    IF w = 1 THEN Leaves
    ELSE { TopDir(CollectionJSON("object"), children, t.template, t.pageDefinition) :
             children \in SeqsOfLen(CoarseChildren, w - 1),
             t \in { TopDir(CollectionJSON("absent"), <<>>, TemplateJSON("absent", Undefined), Absent),
                     TopDir(CollectionJSON("absent"), <<>>, TemplateJSON("object", Str("n")), File("{ }")) } }

RECURSIVE TreesUpTo(_)
TreesUpTo(k) ==
    {<<>>} \cup
    UNION { { <<d>> \o rest : d \in TopDirsOfWeight(w), rest \in TreesUpTo(k - w) } : w \in 1..k }

\* One collection holding one directory out of FineChildren.
FineTrees ==
    { << TopDir(CollectionJSON("object"), <<child>>, TemplateJSON("absent", Undefined), Absent) >> :
        child \in FineChildren }

PackageStates == {Absent, File("{"), File("{ }")}

----------------------------------------------------------------------------------------------------------------------------------------
(* Outcomes *)

Raise(e) == [val |-> <<>>, err |-> e, log |-> <<>>, ops |-> <<>>, scans |-> <<>>]
Raised(r) == r.err # NoError

\* const v = x; F(v): x is evaluated once.
Bind(x, F(_)) == CHOOSE r \in {F(v) : v \in {x}} : TRUE

\* The effects of a and then of b, returning val; a and b did not throw.
Join(a, b, val) ==
    [val |-> val, err |-> NoError, log |-> a.log \o b.log,
     ops |-> a.ops \o b.ops, scans |-> a.scans \o b.scans]

\* b evaluated after a: a's exception skips b, b's exception keeps a's effects.
After(a, b) ==
    Bind(a, LAMBDA av :
        IF Raised(av) THEN av
        ELSE Bind(b, LAMBDA bv : [Join(av, bv, bv.val) EXCEPT !.err = bv.err]))

\* Array.prototype.map: the callback's outcome h on the first element, then
\* the outcome t of mapping the rest.
Cons(h, t) ==
    Bind(h, LAMBDA hv :
        IF Raised(hv) THEN hv
        ELSE Bind(t, LAMBDA tv :
            IF Raised(tv) THEN After(hv, tv)
            ELSE Join(hv, tv, <<hv.val>> \o tv.val)))

----------------------------------------------------------------------------
(* Filesystem and path *)

\* The parsed form of a JSON text file (package.json, page-definition.json).
TextJSON(file) ==
    [kind |-> IF file.kind # "file" THEN "absent"
              ELSE IF JSONParses(file.text) THEN "value" ELSE "unparsable",
     value |-> JSONParse(file.text)]

\* fs.readFileSync + JSON.parse of jsonPath, whose parsed form is json.
_readJSONSync(jsonPath, json) ==
    [val |-> json,
     err |-> IF json.kind = "absent" THEN Error("ENOENT", basename(jsonPath))
             ELSE IF json.kind = "unparsable" THEN Error("SyntaxError", basename(jsonPath))
             ELSE NoError,
     log |-> <<>>,
     ops |-> <<Op("readFileSync", jsonPath)>>,
     scans |-> <<>>]

\* path.resolve(directory, filePath) for a string filePath: the empty string
\* resolves to the directory itself.
resolve(directory, filePath) ==
    IF filePath.v = "" THEN directory ELSE directory \o <<filePath.v>>

\* What is at path.resolve(directory, filePath).
FileAt(files, filePath) ==
    IF filePath.v = "" THEN Directory
    ELSE IF filePath.v \in DOMAIN files THEN files[filePath.v]
    ELSE Absent

\* The directories of `base` as glob sees them, in glob order.
Entries(base, nodes) ==
    [i \in 1..Len(nodes) |-> [directory |-> ChildDir(base, i), node |-> nodes[i]]]

MarkerOf(node, marker) ==
    CASE marker = "collection.json" -> node.collection
      [] marker = "fragment.json" -> node.fragment
      [] marker = "fragment-composition.json" -> node.composition
      [] marker = "page-template.json" -> node.template

HasMarker(e, marker) == MarkerOf(e.node, marker).kind # "absent"

\* glob.sync(path.join(base, '*', marker)).map(json => path.resolve(json, '..'))
globSync(base, nodes, marker) ==
    [val |-> SelectSeq(Entries(base, nodes), LAMBDA e : HasMarker(e, marker)),
     err |-> NoError,
     log |-> <<>>,
     ops |-> <<Op("glob.sync", base \o <<"*", marker>>)>>,
     scans |-> <<>>]

Directories(entries) == [i \in 1..Len(entries) |-> entries[i].directory]


\* FilterDirectory with `return true` in the catch as well.
FilterDirectoryKeepsInvalid(e, marker, message) ==
    Bind(_readJSONSync(e.directory \o <<marker>>, MarkerOf(e.node, marker)), LAMBDA r :
        [val |-> TRUE,
         err |-> NoError,
         log |-> IF Raised(r)
                 THEN <<LogEntry(message, e.directory, Str(marker), "LOG_LEVEL_ERROR", FALSE)>>
                 ELSE <<>>,
         ops |-> r.ops,
         scans |-> <<>>])

\* The callback of .filter on one directory: TRUE when the marker parses,
\* otherwise one log call and FALSE.
FilterDirectory(e, marker, message) ==
    Bind(_readJSONSync(e.directory \o <<marker>>, MarkerOf(e.node, marker)), LAMBDA r :
        [val |-> ~Raised(r),
         err |-> NoError,
         log |-> IF Raised(r)
                 THEN <<LogEntry(message, e.directory, Str(marker), "LOG_LEVEL_ERROR", FALSE)>>
                 ELSE <<>>,
         ops |-> r.ops,
         scans |-> <<>>])

RECURSIVE FilterEntries(_, _, _)
FilterEntries(entries, marker, message) ==
    IF entries = <<>> THEN Pure(<<>>)
    ELSE Bind(FilterDirectory(Head(entries), marker, message), LAMBDA h :
         Bind(FilterEntries(Tail(entries), marker, message), LAMBDA t :
            Join(h, t, IF h.val THEN <<Head(entries)>> \o t.val ELSE t.val)))

\* glob, then .filter: the surviving directories, recorded in scans.
ScanDirectories(base, nodes, marker, message) ==
    Bind(globSync(base, nodes, marker), LAMBDA found :
    Bind(FilterEntries(found.val, marker, message), LAMBDA kept :
        [Join(found, kept, kept.val)
            EXCEPT !.scans = <<Scan(marker, base, Directories(kept.val))>>]))

----------------------------------------------------------------------------
(* Content of fragments and compositions *)

\* metadata.name || directory
NameOr(metadata, directory) ==
    IF Truthy(metadata.name) THEN <<metadata.name.v>> ELSE directory


\* readFile whose catch logs and rethrows.
readFileRethrows(entity, directory, files, metadata, filePath) ==
    LET resolved == filePath.t = "string"
        target == FileAt(files, filePath)
        failed == ~resolved \/ target.kind # "file"
    IN  [val |-> IF failed THEN "" ELSE target.text,
         err |-> IF failed THEN Error("ENOENT", "readFile") ELSE NoError,
         log |-> IF failed
                 THEN << LogEntry(entity, NameOr(metadata, directory), Undefined,
                                  LOG_LEVEL_error, TRUE),
                         LogEntry("File was not found", <<>>, filePath, "none", FALSE) >>
                 ELSE <<>>,
         ops |-> IF resolved THEN <<Op("readFileSync", resolve(directory, filePath))>>
                 ELSE <<>>,
         scans |-> <<>>]

\* readFile whose catch makes one log call instead of two.
readFileLogsOnce(entity, directory, files, metadata, filePath) ==
    LET resolved == filePath.t = "string"
        target == FileAt(files, filePath)
        failed == ~resolved \/ target.kind # "file"
    IN  [val |-> IF failed THEN "" ELSE target.text,
         err |-> NoError,
         log |-> IF failed
                 THEN << LogEntry(entity, NameOr(metadata, directory), filePath,
                                  LOG_LEVEL_error, TRUE) >>
                 ELSE <<>>,
         ops |-> IF resolved THEN <<Op("readFileSync", resolve(directory, filePath))>>
                 ELSE <<>>,
         scans |-> <<>>]

\* The closure readFile of a fragment or a composition (`entity` is the
\* first log line's text).  path.resolve throws a TypeError on a filePath
\* that is no string, inside the try.
readFile(entity, directory, files, metadata, filePath) ==
    LET resolved == filePath.t = "string"
        target == FileAt(files, filePath)
        failed == ~resolved \/ target.kind # "file"
    IN  [val |-> IF failed THEN "" ELSE target.text,
         err |-> NoError,
         log |-> IF failed
                 THEN << LogEntry(entity, NameOr(metadata, directory), Undefined,
                                  LOG_LEVEL_error, TRUE),
                         LogEntry("File was not found", <<>>, filePath, "none", FALSE) >>
                 ELSE <<>>,
         ops |-> IF resolved THEN <<Op("readFileSync", resolve(directory, filePath))>>
                 ELSE <<>>,
         scans |-> <<>>]

FragmentReadFile(directory, files, metadata, filePath) ==
    readFile("Fragment", directory, files, metadata, filePath)

CompositionReadFile(directory, files, metadata, filePath) ==
    readFile("Fragment composition", directory, files, metadata, filePath)


\* _getFramentConfiguration reading through readFile: a missing file is logged.
_getFramentConfigurationLogs(directory, files, configurationPath) ==
    IF ~Truthy(configurationPath) THEN Pure("")
    ELSE readFile("Fragment", directory, files, [name |-> Undefined], configurationPath)

_getFramentConfiguration(directory, files, configurationPath) ==
    IF ~Truthy(configurationPath) THEN Pure("")
    ELSE IF configurationPath.t # "string"
    THEN Raise(Error("TypeError", "configurationPath"))
    ELSE LET target == FileAt(files, configurationPath)
             exists == Op("existsSync", resolve(directory, configurationPath))
             read == Op("readFileSync", resolve(directory, configurationPath))
         IN  IF target.kind = "absent"
             THEN [Pure("") EXCEPT !.ops = <<exists>>]
             ELSE IF target.kind = "dir"
             THEN [Raise(Error("EISDIR", "configurationPath")) EXCEPT !.ops = <<exists, read>>]
             ELSE [Pure(target.text) EXCEPT !.ops = <<exists, read>>]

\* The object literal of a fragment: html, css, js, configuration in order.
FragmentLiteral(directory, files, m) ==
    Bind(FragmentReadFile(directory, files, m.val, m.val.htmlPath), LAMBDA html :
    Bind(FragmentReadFile(directory, files, m.val, m.val.cssPath), LAMBDA css :
    Bind(FragmentReadFile(directory, files, m.val, m.val.jsPath), LAMBDA js :
    Bind(_getFramentConfiguration(directory, files, m.val.configurationPath),
         LAMBDA configuration :
        Bind(After(After(After(After(m, html), css), js), configuration), LAMBDA all :
            IF Raised(all) THEN all
            ELSE [all EXCEPT !.val =
                    [slug |-> basename(directory), metadata |-> m.val,
                     html |-> html.val, css |-> css.val, js |-> js.val,
                     configuration |-> configuration.val]])))))

\* The callback of .map in _getCollectionFragments; metadata.htmlPath
\* throws a TypeError when the marker holds null.
AssembleFragment(e) ==
    Bind(_readJSONSync(e.directory \o <<"fragment.json">>, e.node.fragment), LAMBDA m :
        IF Raised(m) THEN m
        ELSE IF m.val.kind = "null"
        THEN After(m, Raise(Error("TypeError", "metadata.htmlPath")))
        ELSE FragmentLiteral(e.directory, e.node.files, m))

RECURSIVE MapFragments(_)
MapFragments(entries) ==
    IF entries = <<>> THEN Pure(<<>>)
    ELSE Cons(AssembleFragment(Head(entries)), MapFragments(Tail(entries)))

_getCollectionFragments(collectionDirectory, children) ==
    Bind(ScanDirectories(collectionDirectory, children, "fragment.json",
                         "Invalid fragment.json, fragment ignored"),
         LAMBDA kept : After(kept, MapFragments(kept.val)))

\* The callback of .map in _getCollectionFragmentCompositions.
AssembleComposition(e) ==
    Bind(_readJSONSync(e.directory \o <<"fragment-composition.json">>, e.node.composition),
         LAMBDA m :
        IF Raised(m) THEN m
        ELSE IF m.val.kind = "null"
        THEN After(m, Raise(Error("TypeError", "metadata.fragmentCompositionDefinitionPath")))
        ELSE Bind(CompositionReadFile(e.directory, e.node.files, m.val,
                                      m.val.fragmentCompositionDefinitionPath),
                  LAMBDA definitionData :
                Join(m, definitionData,
                     [slug |-> basename(e.directory), metadata |-> m.val,
                      definitionData |-> definitionData.val])))

RECURSIVE MapCompositions(_)
MapCompositions(entries) ==
    IF entries = <<>> THEN Pure(<<>>)
    ELSE Cons(AssembleComposition(Head(entries)), MapCompositions(Tail(entries)))

_getCollectionFragmentCompositions(collectionDirectory, children) ==
    Bind(ScanDirectories(collectionDirectory, children, "fragment-composition.json",
                         "Invalid fragment-composition.json, fragment composition ignored"),
         LAMBDA kept : After(kept, MapCompositions(kept.val)))

----------------------------------------------------------------------------
(* Collections and page templates *)

\* The callback of .map in _getProjectCollections.
AssembleCollection(e) ==
    Bind(_readJSONSync(e.directory \o <<"collection.json">>, e.node.collection), LAMBDA m :
    Bind(After(m, _getCollectionFragmentCompositions(e.directory, e.node.children)),
         LAMBDA fragmentCompositions :
        IF Raised(fragmentCompositions) THEN fragmentCompositions
        ELSE Bind(_getCollectionFragments(e.directory, e.node.children), LAMBDA fragments :
            IF Raised(fragments) THEN After(fragmentCompositions, fragments)
            ELSE Join(fragmentCompositions, fragments,
                      [slug |-> basename(e.directory),
                       fragmentCollectionId |-> basename(e.directory),
                       metadata |-> m.val,
                       fragmentCompositions |-> fragmentCompositions.val,
                       fragments |-> fragments.val]))))

RECURSIVE MapCollections(_)
MapCollections(entries) ==
    IF entries = <<>> THEN Pure(<<>>)
    ELSE Cons(AssembleCollection(Head(entries)), MapCollections(Tail(entries)))

_getProjectCollections(base, nodes) ==
    Bind(ScanDirectories(base \o <<"src">>, nodes, "collection.json",
                         "Invalid collection.json, collection ignored"),
         LAMBDA kept : After(kept, MapCollections(kept.val)))


\* AssemblePageTemplate with the read of page-definition.json in a try
\* that degrades definitionData to "".
AssemblePageTemplateDegrades(e) ==
    Bind(_readJSONSync(e.directory \o <<"page-template.json">>, e.node.template), LAMBDA m :
        IF Raised(m) THEN m
        ELSE IF m.val.kind = "null"
        THEN After(m, Raise(Error("TypeError", "metadata.name")))
        ELSE Bind(_readJSONSync(e.directory \o <<"page-definition.json">>,
                                TextJSON(e.node.pageDefinition)),
                  LAMBDA definition :
                Join(m, definition,
                     [slug |-> basename(e.directory),
                      metadata |-> [name |-> m.val.name,
                                    pageTemplateDefinitionPath |->
                                        e.directory \o <<"page-definition.json">>],
                      definitionData |-> IF Raised(definition) THEN ""
                                         ELSE JSONStringify(definition.val.value)])))

\* The callback of .map in _getPageTemplates; metadata.name throws a
\* TypeError when the marker holds null, page-definition.json is read
\* outside any try.
AssemblePageTemplate(e) ==
    Bind(_readJSONSync(e.directory \o <<"page-template.json">>, e.node.template), LAMBDA m :
        IF Raised(m) THEN m
        ELSE IF m.val.kind = "null"
        THEN After(m, Raise(Error("TypeError", "metadata.name")))
        ELSE Bind(_readJSONSync(e.directory \o <<"page-definition.json">>,
                                TextJSON(e.node.pageDefinition)),
                  LAMBDA definition :
                IF Raised(definition) THEN After(m, definition)
                ELSE Join(m, definition,
                          [slug |-> basename(e.directory),
                           metadata |-> [name |-> m.val.name,
                                         pageTemplateDefinitionPath |->
                                             e.directory \o <<"page-definition.json">>],
                           definitionData |-> JSONStringify(definition.val.value)])))

RECURSIVE MapPageTemplates(_)
MapPageTemplates(entries) ==
    IF entries = <<>> THEN Pure(<<>>)
    ELSE Cons(AssemblePageTemplate(Head(entries)), MapPageTemplates(Tail(entries)))

_getPageTemplates(base, nodes) ==
    Bind(ScanDirectories(base \o <<"src">>, nodes, "page-template.json",
                         "Invalid page-template.json, page template ignored"),
         LAMBDA kept : After(kept, MapPageTemplates(kept.val)))

----------------
(* getProjectContent(basePath): its object literal, property by property *)

basePath == <<>>

Init ==
    /\ \/ tree \in TreesUpTo(MaxEntities)
       \/ tree \in FineTrees
    /\ pkg \in PackageStates
    /\ pc = "project"
    /\ project = "undefined"
    /\ collections = <<>>
    /\ pageTemplates = <<>>
    /\ err = NoError
    /\ log = <<>>
    /\ ops = <<>>
    /\ scans = <<>>

\* The effects of a call, and its exception if one escaped.
Effects(r) ==
    /\ log' = log \o r.log
    /\ ops' = ops \o r.ops
    /\ scans' = scans \o r.scans
    /\ err' = r.err


\* ReadProject evaluated after the collections: the scan runs first, the
\* read of package.json second.
ReadProjectAfterCollections ==
    /\ pc = "project"
    /\ \E r \in {After(_getProjectCollections(basePath, tree),
                       _readJSONSync(basePath \o <<"package.json">>, TextJSON(pkg)))} :
           /\ Effects(r)
           /\ project' = IF Raised(r) THEN project ELSE r.val.value
           /\ pc' = IF Raised(r) THEN "raised" ELSE "pageTemplates"
    /\ UNCHANGED <<pkg, tree, collections, pageTemplates>>

\* project: _readJSONSync(path.resolve(basePath, 'package.json'))
ReadProject ==
    /\ pc = "project"
    /\ \E r \in {_readJSONSync(basePath \o <<"package.json">>, TextJSON(pkg))} :
           /\ Effects(r)
           /\ project' = IF Raised(r) THEN project ELSE r.val.value
           /\ pc' = IF Raised(r) THEN "raised" ELSE "collections"
    /\ UNCHANGED <<pkg, tree, collections, pageTemplates>>

\* collections: _getProjectCollections(basePath)
GetProjectCollections ==
    /\ pc = "collections"
    /\ \E r \in {_getProjectCollections(basePath, tree)} :
           /\ Effects(r)
           /\ collections' = IF Raised(r) THEN collections ELSE r.val
           /\ pc' = IF Raised(r) THEN "raised" ELSE "pageTemplates"
    /\ UNCHANGED <<pkg, tree, project, pageTemplates>>

\* pageTemplates: _getPageTemplates(basePath), and the return
GetPageTemplates ==
    /\ pc = "pageTemplates"
    /\ \E r \in {_getPageTemplates(basePath, tree)} :
           /\ Effects(r)
           /\ pageTemplates' = IF Raised(r) THEN pageTemplates ELSE r.val
           /\ pc' = IF Raised(r) THEN "raised" ELSE "returned"
    /\ UNCHANGED <<pkg, tree, project, collections>>

Next ==
    \/ ReadProject
    \/ GetProjectCollections
    \/ GetPageTemplates

Spec == Init /\ [][Next]_vars
----------------------------------------------------------------------------
(* Vocabulary of the properties *)

\* getProjectContent got past _getProjectCollections.
AfterCollections == pc \in {"pageTemplates", "returned"}

\* The nodes below a scanned directory: <basePath>/src or a collection.
IndexOf(name) == CHOOSE i \in 1..Len(DirNames) : DirNames[i] = name
NodesAt(base) == IF Len(base) = 1 THEN tree ELSE tree[IndexOf(base[2])].children

\* The directories of `nodes` whose marker parses, in the order of the scan.
ParsingDirectories(base, nodes, marker) ==
    LET idx == SelectSeq([i \in 1..Len(nodes) |-> i],
                         LAMBDA i : Parses(MarkerOf(nodes[i], marker)))
    IN  [k \in 1..Len(idx) |-> ChildDir(base, idx[k])]

Slugs(entities) == [i \in 1..Len(entities) |-> entities[i].slug]
Basenames(directories) == [i \in 1..Len(directories) |-> basename(directories[i])]

\* Both levels a logger can take for an error: the string the .filter
\* callbacks pass and the expression readFile passes.
ErrorLevels == {"LOG_LEVEL_ERROR", LOG_LEVEL_error}

\* A tree that is one collection holding one fragment directory and nothing else.
OneFragment ==
    /\ Len(tree) = 1
    /\ Parses(tree[1].collection)
    /\ tree[1].template.kind = "absent"
    /\ Len(tree[1].children) = 1
    /\ tree[1].children[1].fragment.kind = "object"
    /\ tree[1].children[1].composition.kind = "absent"

ContentFields == {"html", "css", "js"}
PathOf(metadata, field) ==
    CASE field = "html" -> metadata.htmlPath
      [] field = "css" -> metadata.cssPath
      [] field = "js" -> metadata.jsPath
      [] field = "configuration" -> metadata.configurationPath
      [] field = "definitionData" -> metadata.fragmentCompositionDefinitionPath

\* The path names a file of the directory (it is a non-empty string).
NamesFile(path) == path.t = "string" /\ path.v # ""
\* The path names a file that does not exist.
MissingFile(files, path) == NamesFile(path) /\ FileAt(files, path).kind = "absent"
\* The path names no regular file: a read of it fails.
Unreadable(files, path) == ~NamesFile(path) \/ FileAt(files, path).kind # "file"

RECURSIVE Sum(_)
Sum(numbers) == IF numbers = <<>> THEN 0 ELSE Head(numbers) + Sum(Tail(numbers))

Count(nodes, Test(_)) == Cardinality({i \in 1..Len(nodes) : Test(nodes[i])})

\* Per collection whose marker parses: a count over its children.
OverCollections(PerChild(_)) ==
    Sum([i \in 1..Len(tree) |->
            IF Parses(tree[i].collection)
            THEN Sum([j \in 1..Len(tree[i].children) |-> PerChild(tree[i].children[j])])
            ELSE 0])

\* Markers that exist and do not parse, among the directories that are scanned.
DroppedMarkers ==
    Count(tree, LAMBDA d : d.collection.kind = "unparsable")
    + Count(tree, LAMBDA d : d.template.kind = "unparsable")
    + OverCollections(LAMBDA c : (IF c.fragment.kind = "unparsable" THEN 1 ELSE 0)
                                 + (IF c.composition.kind = "unparsable" THEN 1 ELSE 0))

\* html, css, js and definitionData fields for which Fails holds.
ContentLoads(Fails(_, _)) ==
    OverCollections(LAMBDA c :
        (IF c.fragment.kind = "object"
         THEN Cardinality({f \in ContentFields : Fails(c.files, PathOf(c.fragment, f))})
         ELSE 0)
        + (IF c.composition.kind = "object"
              /\ Fails(c.files, c.composition.fragmentCompositionDefinitionPath)
           THEN 1 ELSE 0))

\* configuration fields whose configurationPath names a missing file.
MissingConfigurations ==
    OverCollections(LAMBDA c :
        IF c.fragment.kind = "object" /\ MissingFile(c.files, c.fragment.configurationPath)
        THEN 1 ELSE 0)

----------------------------------------------------------------------------
(* C1 *)

\* C1: in every family, the array left by the scan (glob, then .filter)
\* holds exactly the directories whose marker exists and parses, in the
\* order of the scan: a directory whose marker is missing or unparsable is
\* absent, every sibling whose marker parses is present.  When the family's
\* function returns, the slugs it returns are those directories' basenames.
C1_ScanKeepsParsingSiblings ==
    /\ \A k \in DOMAIN scans :
         scans[k].kept = ParsingDirectories(scans[k].base, NodesAt(scans[k].base),
                                            scans[k].marker)
    /\ AfterCollections =>
         /\ Slugs(collections) = Basenames(ParsingDirectories(<<"src">>, tree, "collection.json"))
         /\ \A i \in DOMAIN collections :
              LET directory == <<"src", collections[i].slug>>
              IN  /\ Slugs(collections[i].fragments)
                       = Basenames(ParsingDirectories(directory, NodesAt(directory),
                                                      "fragment.json"))
                  /\ Slugs(collections[i].fragmentCompositions)
                       = Basenames(ParsingDirectories(directory, NodesAt(directory),
                                                      "fragment-composition.json"))
    /\ pc = "returned" =>
         Slugs(pageTemplates) = Basenames(ParsingDirectories(<<"src">>, tree, "page-template.json"))

\* A collection with an unparsable marker, one without marker and a valid
\* one after them, and a fragment kept after a dropped sibling: all returned.
C1_Witness ==
    /\ pc = "returned"
    /\ \E i, j, k \in DOMAIN tree :
         /\ i < k /\ j < k
         /\ tree[i].collection.kind = "unparsable"
         /\ tree[j].collection.kind = "absent"
         /\ Parses(tree[k].collection)
    /\ Len(collections) = 1

C1_WitnessFragments ==
    /\ pc = "returned"
    /\ \E i \in DOMAIN tree :
         /\ Parses(tree[i].collection)
         /\ Len(tree[i].children) = 2
         /\ tree[i].children[1].fragment.kind = "unparsable"
         /\ tree[i].children[2].fragment.kind = "object"

----------------------------------------------------------------------------
(* C2 *)

\* C2: whatever a marker file holds, the family that scans it returns a
\* sequence: no TypeError (the exception of a dereference of the parsed
\* marker, or of path.resolve on one of its fields) escapes.
C2_NoMarkerContentRaises == err.type # "TypeError"

----------------------------------------------------------------------------
(* C3 *)

\* C3: computing a content field never raises: no exception escapes from
\* the computation of html, css, js, configuration or definitionData.
C3_ContentFieldNeverRaises == err.site # "configurationPath"

----------------------------------------------------------------------------
(* C4 *)

\* C4: a falsy path given to readFile causes no log entry and no
\* filesystem access: every "File was not found" entry names a truthy
\* path, and no readFileSync is made on an entity directory itself.
C4_FalsyPathIsSilent ==
    /\ \A i \in DOMAIN log :
         log[i].text = "File was not found" => Truthy(log[i].file)
    /\ \A i \in DOMAIN ops :
         ops[i].op = "readFileSync" => basename(ops[i].path) \notin Range(DirNames)

----------------------------------------------------------------------------
(* C5 *)

\* C5: for a collection of one fragment: without configurationPath, or with
\* a configurationPath naming a missing file, configuration is "" and the
\* log holds nothing for it (only the two entries of each html, css or js
\* that could not be read); a set htmlPath, cssPath or jsPath naming a
\* missing file has a "File was not found" entry naming it.
C5_MissingConfigurationIsSilent ==
    (OneFragment /\ AfterCollections) =>
        LET metadata == tree[1].children[1].fragment
            files == tree[1].children[1].files
            fragment == collections[1].fragments[1]
            failed == {f \in ContentFields : Unreadable(files, PathOf(metadata, f))}
            notFound == {i \in DOMAIN log : log[i].text = "File was not found"}
        IN  /\ (metadata.configurationPath = Undefined
                  \/ MissingFile(files, metadata.configurationPath)) =>
                    /\ fragment.configuration = ""
                    /\ Cardinality(notFound) = Cardinality(failed)
                    /\ Len(log) = 2 * Cardinality(failed)
            /\ \A f \in ContentFields :
                 MissingFile(files, PathOf(metadata, f)) =>
                    \E i \in notFound : log[i].file = PathOf(metadata, f)

\* configurationPath names a missing file while html is read: nothing is logged.
C5_Witness ==
    /\ OneFragment /\ pc = "returned"
    /\ MissingFile(tree[1].children[1].files, tree[1].children[1].fragment.configurationPath)
    /\ collections[1].fragments[1].html = "a"
    /\ collections[1].fragments[1].css = "a"
    /\ collections[1].fragments[1].js = "a"
    /\ log = <<>>

\* No configurationPath, htmlPath names a missing file: only html is logged.
C5_WitnessLogged ==
    /\ OneFragment /\ pc = "returned"
    /\ tree[1].children[1].fragment.configurationPath = Undefined
    /\ MissingFile(tree[1].children[1].files, tree[1].children[1].fragment.htmlPath)
    /\ Len(log) = 2

----------------------------------------------------------------------------
(* C6 *)

\* The tree with file n of the only fragment directory made a regular file.
TreeWithFile(n) == [tree EXCEPT ![1].children[1].files[n] = File(n)]

\* The only fragment's htmlPath names a missing file.
HtmlMissing ==
    /\ OneFragment
    /\ MissingFile(tree[1].children[1].files, tree[1].children[1].fragment.htmlPath)

\* _getProjectCollections has run on the tree (and returned or thrown).
CollectionsDone == AfterCollections \/ (pc = "raised" /\ err.site # "package.json")

\* Were the html file there, `fields` of the only fragment would be what
\* they are without it, html is "", and the fragment is returned under the
\* same conditions.
SameBut(fields) ==
    LET n == tree[1].children[1].fragment.htmlPath.v
        other == _getProjectCollections(basePath, TreeWithFile(n))
    IN  /\ Raised(other) <=> pc = "raised"
        /\ ~Raised(other) =>
             LET fragment == collections[1].fragments[1]
                 wouldBe == other.val[1].fragments[1]
             IN  /\ Len(collections[1].fragments) = 1
                 /\ fragment.html = ""
                 /\ wouldBe.html = n
                 /\ fragment.slug = wouldBe.slug
                 /\ fragment.metadata = wouldBe.metadata
                 /\ "css" \in fields => fragment.css = wouldBe.css
                 /\ "js" \in fields => fragment.js = wouldBe.js
                 /\ "configuration" \in fields =>
                        fragment.configuration = wouldBe.configuration

\* C6 as stated: a fragment whose htmlPath names a missing file is returned
\* with html "" and with slug, metadata, css, js and configuration equal
\* to what they would be if the html file existed.
C6_OnlyHtmlAffected ==
    (HtmlMissing /\ CollectionsDone) => SameBut({"css", "js", "configuration"})

\* C6 amended: the same, for each of css, js and configuration whose path
\* is not the htmlPath itself.
C6_OnlyFieldsOfThatFileAffected ==
    (HtmlMissing /\ CollectionsDone) =>
        LET metadata == tree[1].children[1].fragment
        IN  SameBut({f \in {"css", "js", "configuration"} :
                        PathOf(metadata, f) # metadata.htmlPath})

\* html is missing, css and configuration are read from another file.
C6_Witness ==
    /\ HtmlMissing /\ pc = "returned"
    /\ collections[1].fragments[1].html = ""
    /\ collections[1].fragments[1].css = "b"
    /\ collections[1].fragments[1].configuration = "b"
    /\ Len(log) = 4

----------------------------------------------------------------------------
(* C7 *)

\* Some page template has a marker that parses and a page-definition.json
\* that is missing or does not parse.
BadPageDefinition ==
    \E i \in DOMAIN tree :
        /\ Parses(tree[i].template)
        /\ TextJSON(tree[i].pageDefinition).kind \in {"absent", "unparsable"}

\* C7: with such a page template getProjectContent never returns a
\* Project (it ends in an exception), and no pageTemplates array without
\* the template is ever produced.
C7_BadPageDefinitionIsFatal ==
    BadPageDefinition => (pc # "returned" /\ pageTemplates = <<>>)

\* package.json and the collections were fine, the page definition threw.
C7_Witness ==
    /\ BadPageDefinition
    /\ pc = "raised"
    /\ err.site = "page-definition.json"
    /\ Len(collections) = 1

----------------------------------------------------------------------------
(* C8 *)

IsTemplateOp(o) == basename(o.path) \in {"page-template.json", "page-definition.json"}

\* C8: the first filesystem call is the read of package.json; when it
\* throws, nothing else was done: no scan, no other filesystem call, no log
\* entry; every call made for the collections precedes every call made for
\* the page templates.
C8_PackageFirstThenCollectionsThenTemplates ==
    /\ ops # <<>> => ops[1] = Op("readFileSync", <<"package.json">>)
    /\ TextJSON(pkg).kind # "value" =>
         /\ pc \in {"project", "raised"}
         /\ Len(ops) <= 1
         /\ log = <<>>
         /\ scans = <<>>
         /\ collections = <<>> /\ pageTemplates = <<>>
    /\ \A i, j \in DOMAIN ops : (i < j /\ IsTemplateOp(ops[i])) => IsTemplateOp(ops[j])
    /\ pc = "collections" => (log = <<>> /\ scans = <<>> /\ Len(ops) = 1)

\* package.json is missing above a tree whose scan would log.
C8_Witness ==
    /\ pc = "raised"
    /\ pkg = Absent
    /\ err = Error("ENOENT", "package.json")
    /\ \E i \in DOMAIN tree : tree[i].collection.kind = "unparsable"
    /\ \E i \in DOMAIN tree : Parses(tree[i].template)

----------------------------------------------------------------------------
(* C9 *)

\* Every html, css, js and definitionData path of the tree names a file, and
\* every configurationPath is absent or names a file.
PathsAreSet ==
    OverCollections(LAMBDA c :
        IF \/ /\ c.fragment.kind = "object"
              /\ \/ \E f \in ContentFields : ~NamesFile(PathOf(c.fragment, f))
                 \/ ~(c.fragment.configurationPath = Undefined
                        \/ NamesFile(c.fragment.configurationPath))
           \/ /\ c.composition.kind = "object"
              /\ ~NamesFile(c.composition.fragmentCompositionDefinitionPath)
        THEN 1 ELSE 0) = 0

\* C9 as stated, where every path is set: every dropped marker and every
\* content field degraded to "" (html, css, js, definitionData or
\* configuration whose file is missing or unreadable) has exactly one log
\* entry, and every log entry is of error severity.
C9_OneErrorEntryPerFailure ==
    PathsAreSet =>
    /\ pc = "returned" =>
         Len(log) = DroppedMarkers
                    + ContentLoads(LAMBDA files, path :
                                      NamesFile(path) /\ Unreadable(files, path))
                    + MissingConfigurations
    /\ \A i \in DOMAIN log : log[i].level \in ErrorLevels

EntityTexts == {"Fragment", "Fragment composition"}

\* C9 amended: a dropped marker has exactly one log entry, of error
\* severity; a readFile call that fails (the path is no non-empty string, or
\* names no regular file) has exactly two, the first of error severity
\* naming the entity, the second without level naming the path; a
\* configuration whose file is missing has none.
C9_OnePerMarkerTwoPerContentLoad ==
    /\ pc = "returned" => Len(log) = DroppedMarkers + 2 * ContentLoads(Unreadable)
    /\ \A i \in DOMAIN log :
         IF log[i].text = "File was not found"
         THEN /\ log[i].level = "none"
              /\ i > 1 /\ log[i - 1].text \in EntityTexts
         ELSE /\ log[i].level \in ErrorLevels
              /\ log[i].text \in EntityTexts =>
                    (i < Len(log) /\ log[i + 1].text = "File was not found")

\* A dropped fragment marker beside a fragment with an unreadable html and
\* a configurationPath naming a missing file.
C9_Witness ==
    /\ pc = "returned"
    /\ DroppedMarkers = 1
    /\ ContentLoads(Unreadable) = 1
    /\ MissingConfigurations = 1
    /\ Len(log) = 3

----------------------------------------------------------------------------
(* C10 *)

\* A tree of collections whose markers parse, each holding only fragments
\* whose markers parse, under a package.json that parses.
ValidTree ==
    /\ TextJSON(pkg).kind = "value"
    /\ \A i \in DOMAIN tree :
         /\ Parses(tree[i].collection)
         /\ tree[i].template.kind = "absent"
         /\ \A j \in DOMAIN tree[i].children :
              /\ Parses(tree[i].children[j].fragment)
              /\ tree[i].children[j].composition.kind = "absent"

\* C10: on such a tree getProjectContent returns one collection per
\* directory, in scan order, each with one fragment per child directory.
C10_ValidTreeIsReturnedWhole ==
    (ValidTree /\ pc \notin {"project", "collections"}) =>
        /\ pc # "raised"
        /\ Len(collections) = Len(tree)
        /\ \A i \in DOMAIN collections :
             /\ collections[i].slug = DirNames[i]
             /\ Len(collections[i].fragments) = Len(tree[i].children)

====
